---- MODULE Spec2Model ----
(***************************************************************************)
(* pNet quality control (src/Python/Quality_Control.py) and the volume     *)
(* reshaping it relies on (src/Python/Data_Input.py).                      *)
(*                                                                         *)
(* Six specifications share one set of variables:                          *)
(*   SpecQC     compute_quality_control: spatial correspondence, margin    *)
(*              and mismatch list of one scan;                             *)
(*   SpecFH     compute_quality_control: functional homogeneity of one     *)
(*              scan, which reads no value of the correspondence part;     *)
(*   SpecCodec  reshape_fmri_data / reshape_FN applied to an array;        *)
(*   SpecRun    the loop of run_quality_control over the scans;            *)
(*   SpecLoad   load_fmri_scan over the lines of one scan list;            *)
(*   SpecCheck  check_data_type_format on one pair of settings.            *)
(* Each specification leaves the variables of the others untouched.        *)
(*                                                                         *)
(* Real numbers are fixed-point integers in hundredths: One stands for 1.0.*)
(* Array indices are 0-based as in NumPy.                                  *)
(***************************************************************************)
EXTENDS Integers, Sequences, FiniteSets, TLC

VARIABLES
    \* ---- compute_quality_control
    K,                              \* gFN.shape[1]
    Spatial_Correspondence,         \* [K, K], entry [i, j]: gFN i with pFN j
    Delta_Spatial_Correspondence,   \* [K]
    Miss_Match,                     \* sequence of rows <<pFN, gFN>>, 1-based
    qc_pc,                          \* "start" | "done" | "raised"
    \* ---- reshape_fmri_data / reshape_FN
    dataType,                       \* 'Volume' | 'Surface'
    Brain_Mask,                     \* 3D array
    input,                          \* the array first passed in
    cur,                            \* the array returned by the last call
    calls,                          \* the functions called so far, in order
    codec_pc,                       \* "ok" | "raised"
    \* ---- run_quality_control
    combineScan,                    \* setting['Combine_Scan']: 0 | 1
    N_Scan,                         \* list_scan.shape[0]
    N_Subject,                      \* subject_ID_unique.shape[0]
    list_subject_folder,            \* the lines of Subject_Folder.txt
    run_i,                          \* the loop index i
    run_pc,                         \* the statement the loop is at
    dir_pFN_indv,                   \* the sub-folder the current pFN was loaded from
    flag_QC,                        \* number of scans with a mismatch so far
    Final_Report,                   \* the lines printed to Final_Report.txt
    Result_mat,                     \* the Result.mat files written, in order
    failed_at,                      \* index whose input was missing, -1 if none
    open_files,                     \* the files opened with open() and not closed since
    \* ---- compute_quality_control, functional homogeneity
    dim_space,                      \* scan_data.shape[1] = gFN.shape[0] = pFN.shape[0]
    dim_time,                       \* scan_data.shape[0]
    qc_scan_data,                   \* scan_data, [dim_time, dim_space]
    gFN,                            \* [dim_space, K]
    pFN,                            \* [dim_space, K]
    pFN_signal,                     \* [dim_time, K]
    gFN_signal,                     \* [dim_time, K]
    Corr_FH,                        \* [K, dim_space], as last assigned
    Functional_Homogeneity,         \* [K]
    Functional_Homogeneity_Control, \* [K]
    fh_pc,                          \* "start" | "done"
    \* ---- load_fmri_scan / check_data_type_format
    load_args,                      \* the arguments of the call
    scan_list,                      \* the lines of the scan list, 1-based
    load_i,                         \* the loop index i
    Data,                           \* the data concatenated so far, None at first
    checked,                        \* the indices whose files os.path.isfile has tested
    log_lines,                      \* number of lines printed to logFile
    load_pc                         \* "check" | "loop" | "returned" | "raised"

qcVars == <<K, Spatial_Correspondence, Delta_Spatial_Correspondence, Miss_Match, qc_pc>>

codecVars == <<dataType, Brain_Mask, input, cur, calls, codec_pc>>

runVars == <<combineScan, N_Scan, N_Subject, list_subject_folder, run_i, run_pc,
             dir_pFN_indv, flag_QC, Final_Report, Result_mat, failed_at, open_files>>

fhVars == <<dim_space, dim_time, qc_scan_data, gFN, pFN, pFN_signal, gFN_signal, Corr_FH,
            Functional_Homogeneity, Functional_Homogeneity_Control, fh_pc>>

loadVars == <<load_args, scan_list, load_i, Data, checked, log_lines, load_pc>>

vars == <<qcVars, codecVars, runVars, fhVars, loadVars>>

-----------------------------------------------------------------------------
(* Bounds of the model and the fixed-point unit *)

\* largest number of functional networks
MaxK == 3

\* largest number of entries of a dense 4D array (X * Y * Z * F)
MaxCells == 5

\* largest number of successive reshape calls on one array
MaxCalls == 2

\* largest number of scans listed in Scan_List.txt
MaxScans == 3

\* 1.0 in hundredths: the ones of np.ones(K), the bound of a correlation
One == 100

-----------------------------------------------------------------------------
(* NumPy helpers *)

Range0(n) == 0 .. (n - 1)

\* np.max / np.min of a collection: a zero-size reduction raises ValueError
np_max(S) ==
    IF S = {} THEN [err |-> TRUE, val |-> 0]
    ELSE [err |-> FALSE, val |-> CHOOSE m \in S : \A x \in S : x <= m]

np_min(S) ==
    IF S = {} THEN [err |-> TRUE, val |-> 0]
    ELSE [err |-> FALSE, val |-> CHOOSE m \in S : \A x \in S : m <= x]

\* variant: the reduction runs along axis 1 (over the columns of row j)
np_max_axis1(A, n) ==
    [j \in Range0(n) |-> np_max({A[j, i] : i \in Range0(n)})]

\* np.max(A, axis=0) of a [n, n] matrix: for each column j, over the rows i
np_max_axis0(A, n) ==
    [j \in Range0(n) |-> np_max({A[i, j] : i \in Range0(n)})]

\* variant: the last row holding the maximum
np_argmax_axis0_last(A, n) ==
    [j \in Range0(n) |->
        CHOOSE i \in Range0(n) :
            /\ \A r \in Range0(n) : A[r, j] <= A[i, j]
            /\ \A r \in Range0(n) : r > i => A[r, j] < A[i, j]]

\* variant: the argmax runs along axis 1
np_argmax_axis1(A, n) ==
    [j \in Range0(n) |->
        CHOOSE i \in Range0(n) :
            /\ \A r \in Range0(n) : A[j, r] <= A[j, i]
            /\ \A r \in Range0(n) : r < i => A[j, r] < A[j, i]]

\* np.argmax(A, axis=0): for each column the first row holding the maximum
np_argmax_axis0(A, n) ==
    [j \in Range0(n) |->
        CHOOSE i \in Range0(n) :
            /\ \A r \in Range0(n) : A[r, j] <= A[i, j]
            /\ \A r \in Range0(n) : r < i => A[r, j] < A[i, j]]

RECURSIVE np_where_negative(_, _)
RECURSIVE np_where_nonpositive(_, _)
\* variant: np.where(v <= 0)[0]
np_where_nonpositive(v, n) ==
    IF n = 0 THEN <<>>
    ELSE IF v[n - 1] <= 0 THEN Append(np_where_nonpositive(v, n - 1), n - 1)
         ELSE np_where_nonpositive(v, n - 1)

\* np.where(v < 0)[0] of a vector v of length n: the indices in ascending order
np_where_negative(v, n) ==
    IF n = 0 THEN <<>>
    ELSE IF v[n - 1] < 0 THEN Append(np_where_negative(v, n - 1), n - 1)
         ELSE np_where_negative(v, n - 1)

-----------------------------------------------------------------------------
(* compute_quality_control: spatial correspondence *)

\* the values a correlation takes in the model, all within [-1, 1]; the
\* enumeration is coarser for larger K to keep the number of matrices finite
\* and small: every order pattern of three entries occurs for K <= 3
CorrVals(n) ==
    IF n <= 2 THEN {-One, 0, 90, One}
    ELSE IF n = 3 THEN {-One, 90, One}
    ELSE {-One, One}

\* the worked example [[0.9, 0.95], [0.1, 0.2]]
MismatchExample ==
    [p \in Range0(2) \X Range0(2) |->
        IF p = <<0, 0>> THEN 90 ELSE IF p = <<0, 1>> THEN 95
        ELSE IF p = <<1, 0>> THEN 10 ELSE 20]

\* mat_corr(gFN, pFN): the [K, K] matrices of Pearson correlations it can
\* return, entry [i, j] correlating column i of gFN with column j of pFN
mat_corr(n) ==
    [Range0(n) \X Range0(n) -> CorrVals(n)]
        \cup (IF n = 2 THEN {MismatchExample} ELSE {})

\* variant: the diagonal is lowered by 1 only
LowerDiagonalByOne(SC, n) ==
    [p \in Range0(n) \X Range0(n) |->
        IF p[1] = p[2] THEN SC[p] - One ELSE SC[p]]

\* Spatial_Correspondence - np.diag(2 * np.ones(K))
LowerDiagonal(SC, n) ==
    [p \in Range0(n) \X Range0(n) |->
        IF p[1] = p[2] THEN SC[p] - 2 * One ELSE SC[p]]

\* variant: the diagonal is not lowered before the maximum is taken
DeltaNoSentinel(SC, n) ==
    LET m == np_max_axis0(SC, n)
    IN  [err |-> \E j \in Range0(n) : m[j].err,
         val |-> [j \in Range0(n) |-> SC[j, j] - m[j].val]]

\* variant: the maximum is taken along axis 1, over the row of each network
DeltaOverRows(SC, n) ==
    LET m == np_max_axis1(LowerDiagonal(SC, n), n)
    IN  [err |-> \E j \in Range0(n) : m[j].err,
         val |-> [j \in Range0(n) |-> SC[j, j] - m[j].val]]

\* variant: the maximum is taken over the off-diagonal entries alone, an
\* empty collection when K = 1
DeltaOffDiagonalOnly(SC, n) ==
    LET m == [j \in Range0(n) |-> np_max({SC[i, j] : i \in Range0(n) \ {j}})]
    IN  [err |-> \E j \in Range0(n) : m[j].err,
         val |-> [j \in Range0(n) |-> SC[j, j] - m[j].val]]

\* np.diag(SC) - np.max(SC - np.diag(2 * np.ones(K)), axis=0)
Delta(SC, n) ==
    LET m == np_max_axis0(LowerDiagonal(SC, n), n)
    IN  [err |-> \E j \in Range0(n) : m[j].err,
         val |-> [j \in Range0(n) |-> SC[j, j] - m[j].val]]

\* variant: the indices are reported 0-based
PairsZeroBased(ps, ps2) ==
    [r \in 1 .. Len(ps) |-> <<ps[r], ps2[ps[r]]>>]

\* np.concatenate((ps[:, np.newaxis] + 1, ps2[ps, np.newaxis] + 1), axis=1)
Pairs(ps, ps2) ==
    [r \in 1 .. Len(ps) |-> <<ps[r] + 1, ps2[ps[r]] + 1>>]

\* variant: a margin of 0 counts as a mismatch
MissMatchTiesFlagged(SC, d, n) ==
    IF np_min({d[j] : j \in Range0(n)}).val > 0 THEN <<>>
    ELSE Pairs(np_where_nonpositive(d, n), np_argmax_axis0(SC, n))

\* variant: ties for the maximum go to the highest index
MissMatchLastArgmax(SC, d, n) ==
    IF np_min({d[j] : j \in Range0(n)}).val >= 0 THEN <<>>
    ELSE Pairs(np_where_negative(d, n), np_argmax_axis0_last(SC, n))

\* variant: the target is the argmax of the row of the network
MissMatchRowArgmax(SC, d, n) ==
    IF np_min({d[j] : j \in Range0(n)}).val >= 0 THEN <<>>
    ELSE Pairs(np_where_negative(d, n), np_argmax_axis1(SC, n))

\* variant: 0-based rows
MissMatchZeroBased(SC, d, n) ==
    IF np_min({d[j] : j \in Range0(n)}).val >= 0 THEN <<>>
    ELSE PairsZeroBased(np_where_negative(d, n), np_argmax_axis0(SC, n))

\* lines 186-191: the mismatch list of a margin vector d
MissMatch(SC, d, n) ==
    IF np_min({d[j] : j \in Range0(n)}).val >= 0 THEN <<>>
    ELSE Pairs(np_where_negative(d, n), np_argmax_axis0(SC, n))

\* the variables of compute_quality_control before / outside a computation
QCIdle ==
    /\ Spatial_Correspondence = <<>>
    /\ Delta_Spatial_Correspondence = <<>>
    /\ Miss_Match = <<>>
    /\ qc_pc = "start"

\* the variables of the reshape functions outside a reshape
CodecIdle ==
    /\ dataType = "Volume"
    /\ Brain_Mask = <<>>
    /\ input = <<>>
    /\ cur = <<>>
    /\ calls = <<>>
    /\ codec_pc = "ok"

\* the variables of run_quality_control outside a run
RunIdle ==
    /\ combineScan = 0
    /\ N_Scan = 0
    /\ N_Subject = 0
    /\ list_subject_folder = <<>>
    /\ run_i = 0
    /\ run_pc = "idle"
    /\ dir_pFN_indv = 0
    /\ flag_QC = 0
    /\ Final_Report = <<>>
    /\ Result_mat = <<>>
    /\ failed_at = -1
    /\ open_files = {}

\* the variables of the homogeneity part when it is not followed
FHIdle ==
    /\ dim_space = 0
    /\ dim_time = 0
    /\ qc_scan_data = <<>>
    /\ gFN = <<>>
    /\ pFN = <<>>
    /\ pFN_signal = <<>>
    /\ gFN_signal = <<>>
    /\ Corr_FH = <<>>
    /\ Functional_Homogeneity = <<>>
    /\ Functional_Homogeneity_Control = <<>>
    /\ fh_pc = "idle"

\* the variables of load_fmri_scan when it is not followed
LoadIdle ==
    /\ load_args = <<>>
    /\ scan_list = <<>>
    /\ load_i = 0
    /\ Data = <<>>
    /\ checked = {}
    /\ log_lines = 0
    /\ load_pc = "idle"

InitQC ==
    /\ K \in 1 .. MaxK
    /\ QCIdle
    /\ CodecIdle
    /\ RunIdle
    /\ FHIdle
    /\ LoadIdle

\* compute_quality_control, lines 178-191
compute_quality_control ==
    /\ qc_pc = "start"
    /\ \E SC \in mat_corr(K) :
        LET d == Delta(SC, K)
        IN  /\ Spatial_Correspondence' = SC
            /\ IF d.err \/ np_min({d.val[j] : j \in Range0(K)}).err
               THEN /\ qc_pc' = "raised"
                    /\ UNCHANGED <<Delta_Spatial_Correspondence, Miss_Match>>
               ELSE /\ qc_pc' = "done"
                    /\ Delta_Spatial_Correspondence' = d.val
                    /\ Miss_Match' = MissMatch(SC, d.val, K)
    /\ UNCHANGED <<K, codecVars, runVars, fhVars, loadVars>>

NextQC == compute_quality_control

SpecQC == InitQC /\ [][NextQC]_vars

-----------------------------------------------------------------------------
(* Claims about compute_quality_control *)

QCDone == qc_pc = "done"

Nets == Range0(K)

\* 0-based networks named as the pFN of a row of Miss_Match
MissMatched == {Miss_Match[r][1] - 1 : r \in 1 .. Len(Miss_Match)}

RowOthers(i) == {Spatial_Correspondence[i, j] : j \in Nets \ {i}}

ColumnOthers(i) == {Spatial_Correspondence[j, i] : j \in Nets \ {i}}

SetMax(S) == CHOOSE m \in S : \A x \in S : x <= m

\* C3 as stated: for K >= 2 the margin of network i is its self-correlation
\* minus the largest other entry of ROW i of the correlation matrix.
C3_MarginOverRow ==
    (QCDone /\ K >= 2) =>
        \A i \in Nets :
            Delta_Spatial_Correspondence[i] =
                Spatial_Correspondence[i, i] - SetMax(RowOthers(i))

\* C3 amended: for K >= 2 the margin of network i is its self-correlation
\* minus the largest other entry of COLUMN i (over the group networks j /= i
\* paired with personalized network i).
C3_MarginOverColumn ==
    (QCDone /\ K >= 2) =>
        \A i \in Nets :
            Delta_Spatial_Correspondence[i] =
                Spatial_Correspondence[i, i] - SetMax(ColumnOthers(i))

\* C3 witness: a computed margin on a matrix whose row and column maxima differ
C3_Witness ==
    /\ QCDone /\ K >= 2
    /\ \E i \in Nets : SetMax(RowOthers(i)) /= SetMax(ColumnOthers(i))

\* C4 as stated: on [[0.9, 0.95], [0.1, 0.2]] network 0 is mismatched with
\* margin -0.05, network 1 is not, and the output is the single pair (1, 2).
C4_ExampleAsStated ==
    (QCDone /\ K = 2 /\ Spatial_Correspondence = MismatchExample) =>
        /\ Delta_Spatial_Correspondence[0] = 90 - 95
        /\ Miss_Match = << <<1, 2>> >>

\* C4 amended: on [[0.9, 0.95], [0.1, 0.2]] network 1 is mismatched with
\* margin 0.2 - 0.95 = -0.75 and target gFN index 0, network 0 is not
\* mismatched (margin 0.9 - 0.1 = 0.8), and the output is the single 1-based
\* pair (2, 1).
C4_ExampleAsComputed ==
    (QCDone /\ K = 2 /\ Spatial_Correspondence = MismatchExample) =>
        /\ Delta_Spatial_Correspondence[1] = 20 - 95
        /\ Delta_Spatial_Correspondence[0] = 90 - 10
        /\ Miss_Match = << <<2, 1>> >>

\* C4 witness: the example has been computed
C4_Witness ==
    QCDone /\ K = 2 /\ Spatial_Correspondence = MismatchExample

\* C5 as stated: a network whose self-correlation is strictly the largest
\* entry of its ROW is never the pFN of a mismatch pair.
C5_RowMaxNeverMismatched ==
    QCDone =>
        \A i \in Nets :
            (\A x \in RowOthers(i) : Spatial_Correspondence[i, i] > x)
                => i \notin MissMatched

\* C5 amended: a network whose self-correlation is strictly the largest
\* entry of its COLUMN is never the pFN of a mismatch pair.
C5_ColumnMaxNeverMismatched ==
    QCDone =>
        \A i \in Nets :
            (\A x \in ColumnOthers(i) : Spatial_Correspondence[i, i] > x)
                => i \notin MissMatched

\* C5 witness: some network is the strict maximum of its column while another
\* network of the same scan is reported
C5_Witness ==
    /\ QCDone /\ K >= 2 /\ Len(Miss_Match) > 0
    /\ \E i \in Nets : \A x \in ColumnOthers(i) : Spatial_Correspondence[i, i] > x

\* C6: network i is in the mismatch list iff its margin is negative; a margin
\* of exactly 0 is no mismatch; there are as many rows as negative margins;
\* with no negative margin the list is empty.
C6_MismatchIffNegativeMargin ==
    QCDone =>
        LET neg == {i \in Nets : Delta_Spatial_Correspondence[i] < 0}
        IN  /\ MissMatched = neg
            /\ Len(Miss_Match) = Cardinality(neg)
            /\ (neg = {} => Miss_Match = <<>>)

\* C6 witness: one margin is exactly 0 while another is negative
C6_Witness ==
    /\ QCDone
    /\ \E i, j \in Nets :
        Delta_Spatial_Correspondence[i] = 0 /\ Delta_Spatial_Correspondence[j] < 0

\* C7: the target of a mismatched network is a group network of maximum
\* correlation with it among all K, the lowest index among those that tie.
C7_TargetIsFirstArgmax ==
    QCDone =>
        \A r \in 1 .. Len(Miss_Match) :
            LET p == Miss_Match[r][1] - 1
                g == Miss_Match[r][2] - 1
            IN  /\ g \in Nets
                /\ \A i \in Nets : Spatial_Correspondence[i, p] <= Spatial_Correspondence[g, p]
                /\ \A i \in Nets : i < g => Spatial_Correspondence[i, p] < Spatial_Correspondence[g, p]

\* C7 witness: a mismatched network whose maximum is attained twice
C7_Witness ==
    /\ QCDone
    /\ \E r \in 1 .. Len(Miss_Match) :
        \E i \in Nets :
            /\ i > Miss_Match[r][2] - 1
            /\ Spatial_Correspondence[i, Miss_Match[r][1] - 1]
                 = Spatial_Correspondence[Miss_Match[r][2] - 1, Miss_Match[r][1] - 1]

\* C8: every row is a pair (pFN, gFN) of 1-based indices in 1..K, the 0-based
\* index of a flagged network and of its target plus 1, and the rows are in
\* strictly ascending order of pFN index.
C8_OutputFormat ==
    QCDone =>
        /\ \A r \in 1 .. Len(Miss_Match) :
            /\ Len(Miss_Match[r]) = 2
            /\ Miss_Match[r][1] \in 1 .. K
            /\ Miss_Match[r][2] \in 1 .. K
            /\ Delta_Spatial_Correspondence[Miss_Match[r][1] - 1] < 0
            /\ \A g \in Nets :
                Spatial_Correspondence[g, Miss_Match[r][1] - 1]
                    <= Spatial_Correspondence[Miss_Match[r][2] - 1, Miss_Match[r][1] - 1]
        /\ \A r, s \in 1 .. Len(Miss_Match) : r < s => Miss_Match[r][1] < Miss_Match[s][1]

\* C8 witness: a list of at least two rows that includes network 0
C8_Witness ==
    QCDone /\ Len(Miss_Match) >= 2 /\ Miss_Match[1][1] = 1

\* C9: with K = 1 the computation never raises, the margin is non-negative
\* and the mismatch list is empty.
C9_SingleNetwork ==
    K = 1 =>
        /\ qc_pc /= "raised"
        /\ QCDone => /\ Delta_Spatial_Correspondence[0] >= 0
                      /\ Miss_Match = <<>>

\* C9 witness: a single-network computation has completed
C9_Witness ==
    QCDone /\ K = 1

\* every entry of Spatial_Correspondence is a correlation, in [-1, 1]
EntriesAreCorrelations ==
    \A i, j \in Nets :
        -One <= Spatial_Correspondence[i, j] /\ Spatial_Correspondence[i, j] <= One

\* C27: diagonal exclusion by sentinel. For K >= 2 and entries in [-1, 1],
\* the diagonal entry of column j lowered by 2 never exceeds the largest
\* off-diagonal entry of that column, so the margin of network j is its
\* diagonal entry minus the maximum over the group networks i /= j of
\* column j.
C27_SentinelExcludesDiagonal ==
    (QCDone /\ K >= 2 /\ EntriesAreCorrelations) =>
        \A j \in Nets :
            /\ Spatial_Correspondence[j, j] - 2 * One <= SetMax(ColumnOthers(j))
            /\ \A i \in Nets \ {j} :
                Delta_Spatial_Correspondence[j]
                    <= Spatial_Correspondence[j, j] - Spatial_Correspondence[i, j]
            /\ \E i \in Nets \ {j} :
                Delta_Spatial_Correspondence[j]
                    = Spatial_Correspondence[j, j] - Spatial_Correspondence[i, j]

\* C27 witness: a column whose diagonal entry is 1 and whose other entries
\* are all -1: the lowered diagonal equals the off-diagonal maximum and the
\* margin is 2
C27_Witness ==
    /\ QCDone /\ K = 3
    /\ \E j \in Nets :
        /\ Spatial_Correspondence[j, j] = One
        /\ ColumnOthers(j) = {-One}
        /\ Delta_Spatial_Correspondence[j] = 2 * One

\* C28: no self-target. In every pair (p, g) of the returned Miss_Match,
\* g /= p: a network with a negative margin is paired with a group network
\* other than its own, although the argmax runs over the whole column.
C28_NoSelfTarget ==
    QCDone => \A r \in 1 .. Len(Miss_Match) : Miss_Match[r][2] /= Miss_Match[r][1]

\* C28 witness: a mismatched network whose own entry is the second largest
\* of its column, next to a network whose margin is 0 by a tie with its
\* diagonal
C28_Witness ==
    /\ QCDone /\ K = 3
    /\ \E r \in 1 .. Len(Miss_Match) :
        LET p == Miss_Match[r][1] - 1
        IN  \E i \in Nets \ {p} :
                Spatial_Correspondence[i, p] < Spatial_Correspondence[p, p]
    /\ \E j \in Nets :
        /\ Delta_Spatial_Correspondence[j] = 0
        /\ j \notin MissMatched

-----------------------------------------------------------------------------
(* N-dimensional arrays: [shape |-> <<n1, ..., nd>>, at |-> value at each    *)
(* 0-based index tuple]                                                     *)

RECURSIVE Prod(_)
Prod(shape) == IF shape = <<>> THEN 1 ELSE Head(shape) * Prod(Tail(shape))

Idx(shape) ==
    IF Len(shape) = 1 THEN {<<a>> : a \in Range0(shape[1])}
    ELSE IF Len(shape) = 2 THEN Range0(shape[1]) \X Range0(shape[2])
    ELSE IF Len(shape) = 3 THEN Range0(shape[1]) \X Range0(shape[2]) \X Range0(shape[3])
    ELSE Range0(shape[1]) \X Range0(shape[2]) \X Range0(shape[3]) \X Range0(shape[4])

\* linear position of an index tuple, last axis fastest (order='C')
RECURSIVE RavelC(_, _)
RavelC(shape, idx) ==
    IF shape = <<>> THEN 0
    ELSE LET n == Len(shape)
         IN  idx[n] + shape[n] * RavelC(SubSeq(shape, 1, n - 1), SubSeq(idx, 1, n - 1))

RECURSIVE UnravelC(_, _)
UnravelC(shape, p) ==
    IF shape = <<>> THEN <<>>
    ELSE LET n == Len(shape)
         IN  Append(UnravelC(SubSeq(shape, 1, n - 1), p \div shape[n]), p % shape[n])

\* linear position of an index tuple, first axis fastest (order='F')
RECURSIVE RavelF(_, _)
RavelF(shape, idx) ==
    IF shape = <<>> THEN 0
    ELSE Head(idx) + Head(shape) * RavelF(Tail(shape), Tail(idx))

RECURSIVE UnravelF(_, _)
UnravelF(shape, p) ==
    IF shape = <<>> THEN <<>>
    ELSE <<p % Head(shape)>> \o UnravelF(Tail(shape), p \div Head(shape))

\* variant: np.reshape(a, newshape) in the default order='C'
np_reshape_C(a, newshape) ==
    [shape |-> newshape,
     at |-> [j \in Idx(newshape) |-> a.at[UnravelC(a.shape, RavelC(newshape, j))]]]

\* np.reshape(a, newshape, order='F')
np_reshape_F(a, newshape) ==
    [shape |-> newshape,
     at |-> [j \in Idx(newshape) |-> a.at[UnravelF(a.shape, RavelF(newshape, j))]]]

\* a.T of a 2D array
Transpose(a) ==
    [shape |-> <<a.shape[2], a.shape[1]>>,
     at |-> [j \in Idx(<<a.shape[2], a.shape[1]>>) |-> a.at[j[2], j[1]]]]

\* variant: (Brain_Mask > 0).flatten() in the default order='C'
flatten_C(mask) ==
    [p \in Range0(Prod(mask.shape)) |-> mask.at[UnravelC(mask.shape, p)] > 0]

\* (Brain_Mask > 0).flatten('F'): one flag per linear position
flatten_F(mask) ==
    [p \in Range0(Prod(mask.shape)) |-> mask.at[UnravelF(mask.shape, p)] > 0]

\* the positions a boolean index selects, in ascending order
RECURSIVE Selected(_, _)
Selected(flags, n) ==
    IF n = 0 THEN <<>>
    ELSE IF flags[n - 1] THEN Append(Selected(flags, n - 1), n - 1)
         ELSE Selected(flags, n - 1)

\* np.sum(Brain_Mask > 0)
CountInMask(mask) == Cardinality({j \in Idx(mask.shape) : mask.at[j] > 0})

\* a[:, flags] and a[flags, :] of a 2D array
SelectColumns(a, flags) ==
    LET sel == Selected(flags, a.shape[2])
    IN  [shape |-> <<a.shape[1], Len(sel)>>,
         at |-> [j \in Idx(<<a.shape[1], Len(sel)>>) |-> a.at[j[1], sel[j[2] + 1]]]]

SelectRows(a, flags) ==
    LET sel == Selected(flags, a.shape[1])
    IN  [shape |-> <<Len(sel), a.shape[2]>>,
         at |-> [j \in Idx(<<Len(sel), a.shape[2]>>) |-> a.at[sel[j[1] + 1], j[2]]]]

\* z = np.zeros((r, len(ps))); z[:, ps] = a   and   z = np.zeros((len(ps), c)); z[ps, :] = a
ScatterColumns(a, flags, n) ==
    [shape |-> <<a.shape[1], n>>,
     at |-> [j \in Idx(<<a.shape[1], n>>) |->
                IF flags[j[2]] THEN a.at[j[1], Len(Selected(flags, j[2]))] ELSE 0]]

ScatterRows(a, flags, n) ==
    [shape |-> <<n, a.shape[2]>>,
     at |-> [j \in Idx(<<n, a.shape[2]>>) |->
                IF flags[j[1]] THEN a.at[Len(Selected(flags, j[1])), j[2]] ELSE 0]]

Raised == [err |-> TRUE, val |-> <<>>]

Returned(a) == [err |-> FALSE, val |-> a]

-----------------------------------------------------------------------------
(* reshape_fmri_data and reshape_FN *)

\* variant: the test of line 764 on the number of voxels only
fmri_encode_count_only(scan_data, mask) ==
    IF Prod(SubSeq(scan_data.shape, 1, 3)) /= Prod(mask.shape) THEN Raised
    ELSE Returned(SelectColumns(
            Transpose(np_reshape_F(scan_data,
                <<Prod(SubSeq(scan_data.shape, 1, 3)), scan_data.shape[4]>>)),
            flatten_F(mask)))

\* variant: the mask of line 767 flattened in the default order='C'
fmri_encode_mask_C(scan_data, mask) ==
    IF SubSeq(scan_data.shape, 1, 3) /= mask.shape THEN Raised
    ELSE Returned(SelectColumns(
            Transpose(np_reshape_F(scan_data,
                <<Prod(SubSeq(scan_data.shape, 1, 3)), scan_data.shape[4]>>)),
            flatten_C(mask)))

\* lines 764-767: 4D [X Y Z T] to 2D [dim_time, dim_space]
fmri_encode(scan_data, mask) ==
    IF SubSeq(scan_data.shape, 1, 3) /= mask.shape THEN Raised
    ELSE Returned(SelectColumns(
            Transpose(np_reshape_F(scan_data,
                <<Prod(SubSeq(scan_data.shape, 1, 3)), scan_data.shape[4]>>)),
            flatten_F(mask)))

\* variant: the test of line 770 against the size of the whole grid
fmri_decode_whole_grid(scan_data, mask) ==
    IF scan_data.shape[2] /= Prod(mask.shape) THEN Raised
    ELSE LET ps == flatten_F(mask)
         IN  Returned(np_reshape_F(
                Transpose(ScatterColumns(scan_data, ps, Prod(mask.shape))),
                mask.shape \o <<scan_data.shape[1]>>))

\* lines 770-775: 2D [dim_time, dim_space] back to 4D [X Y Z T]
fmri_decode(scan_data, mask) ==
    IF scan_data.shape[2] /= CountInMask(mask) THEN Raised
    ELSE LET ps == flatten_F(mask)
         IN  Returned(np_reshape_F(
                Transpose(ScatterColumns(scan_data, ps, Prod(mask.shape))),
                mask.shape \o <<scan_data.shape[1]>>))

reshape_fmri_data(scan_data, dT, mask) ==
    IF dT = "Volume"
    THEN IF Len(scan_data.shape) = 4 THEN fmri_encode(scan_data, mask)
         ELSE IF Len(scan_data.shape) = 2 THEN fmri_decode(scan_data, mask)
         ELSE Raised
    ELSE Returned(scan_data)

\* variant: the reshape of line 806 in the default order='C'
FN_encode_C(FN, mask) ==
    IF SubSeq(FN.shape, 1, 3) /= mask.shape THEN Raised
    ELSE Returned(SelectRows(
            np_reshape_C(FN, <<Prod(SubSeq(FN.shape, 1, 3)), FN.shape[4]>>),
            flatten_F(mask)))

\* lines 804-807: 4D [X Y Z K] to 2D [dim_space, K]
FN_encode(FN, mask) ==
    IF SubSeq(FN.shape, 1, 3) /= mask.shape THEN Raised
    ELSE Returned(SelectRows(
            np_reshape_F(FN, <<Prod(SubSeq(FN.shape, 1, 3)), FN.shape[4]>>),
            flatten_F(mask)))

\* variant: the final reshape of line 815 in the default order='C'
FN_decode_C(FN, mask) ==
    IF FN.shape[1] /= CountInMask(mask) THEN Raised
    ELSE LET ps == flatten_F(mask)
         IN  Returned(np_reshape_C(
                ScatterRows(FN, ps, Prod(mask.shape)),
                mask.shape \o <<FN.shape[2]>>))

\* lines 810-815: 2D [dim_space, K] back to 4D [X Y Z K]
FN_decode(FN, mask) ==
    IF FN.shape[1] /= CountInMask(mask) THEN Raised
    ELSE LET ps == flatten_F(mask)
         IN  Returned(np_reshape_F(
                ScatterRows(FN, ps, Prod(mask.shape)),
                mask.shape \o <<FN.shape[2]>>))

\* variant: the volume branch taken for every data type
reshape_FN_any_type(FN, dT, mask) ==
    IF mask.shape = <<>> THEN Raised
    ELSE IF Len(FN.shape) = 4 THEN FN_encode(FN, mask)
    ELSE IF Len(FN.shape) = 2 THEN FN_decode(FN, mask)
    ELSE Raised

reshape_FN(FN, dT, mask) ==
    IF dT = "Volume"
    THEN IF Len(FN.shape) = 4 THEN FN_encode(FN, mask)
         ELSE IF Len(FN.shape) = 2 THEN FN_decode(FN, mask)
         ELSE Raised
    ELSE Returned(FN)

\* the values of array entries: every two positions are told apart by some
\* array over two values, one of them the 0 that np.zeros fills in
DataVals == {0, 1}

DataTypes == {"Volume", "Surface"}

\* every array of a shape over DataVals
Arrays(shape) == {[shape |-> shape, at |-> f] : f \in [Idx(shape) -> DataVals]}

\* the arrays of a shape with one value everywhere; they stand for the inputs
\* that a shape test rejects whatever they contain
ConstArrays(shape) == {[shape |-> shape, at |-> [j \in Idx(shape) |-> v]] : v \in DataVals}

\* the contents followed for a shape: every array over DataVals up to 5
\* entries, the constant ones beyond
Contents(shape) == IF Prod(shape) <= 5 THEN Arrays(shape) ELSE ConstArrays(shape)

\* Brain_Mask = None
NoneMask == [shape |-> <<>>, at |-> <<>>]

\* shapes of at most MaxCells entries; a 2D array may have an empty axis
Shapes2 == {s \in (0 .. MaxCells) \X (0 .. MaxCells) : Prod(s) <= MaxCells}

Shapes3 ==
    {s \in (1 .. MaxCells) \X (1 .. MaxCells) \X (1 .. MaxCells) : Prod(s) <= MaxCells}

Shapes4 ==
    {s \in (1 .. MaxCells) \X (1 .. MaxCells) \X (1 .. MaxCells) \X (1 .. MaxCells) :
        Prod(s) <= MaxCells}

\* 3D masks of 0/1 (Brain_Mask == maskValue)
Masks == UNION {Contents(s) : s \in Shapes3}

\* the arrays handed to the reshape functions with a volume mask: dense 4D
\* arrays on the grid of the mask or on another grid, compact 2D arrays whose
\* row or column count is or is not the number of in-mask voxels, and 3D arrays
VolumeInputs(mask) ==
    UNION ({IF SubSeq(s, 1, 3) = mask.shape THEN Contents(s) ELSE ConstArrays(s) : s \in Shapes4}
           \cup {IF CountInMask(mask) \in {s[1], s[2]} THEN Contents(s) ELSE ConstArrays(s) :
                    s \in Shapes2}
           \cup {ConstArrays(s) : s \in Shapes3})

\* surface data: any array, with or without a mask
SurfaceInputs ==
    UNION ({Contents(s) : s \in Shapes4 \cup Shapes2} \cup {ConstArrays(s) : s \in Shapes3})

InitCodec ==
    /\ K = 1
    /\ QCIdle
    /\ dataType \in DataTypes
    /\ IF dataType = "Volume"
       THEN Brain_Mask \in Masks /\ input \in VolumeInputs(Brain_Mask)
       ELSE Brain_Mask \in {NoneMask} \cup Arrays(<<1, 1, 1>>) /\ input \in SurfaceInputs
    /\ cur = input
    /\ calls = <<>>
    /\ codec_pc = "ok"
    /\ RunIdle
    /\ FHIdle
    /\ LoadIdle

\* one call of a reshape function on the current array
Call(name, result) ==
    /\ codec_pc = "ok"
    /\ Len(calls) < MaxCalls
    /\ calls' = Append(calls, name)
    /\ IF result.err
       THEN codec_pc' = "raised" /\ cur' = cur
       ELSE codec_pc' = "ok" /\ cur' = result.val
    /\ UNCHANGED <<dataType, Brain_Mask, input, qcVars, runVars, fhVars, loadVars>>

call_reshape_fmri_data ==
    Call("reshape_fmri_data", reshape_fmri_data(cur, dataType, Brain_Mask))

call_reshape_FN ==
    Call("reshape_FN", reshape_FN(cur, dataType, Brain_Mask))

NextCodec == call_reshape_fmri_data \/ call_reshape_FN

SpecCodec == InitCodec /\ [][NextCodec]_vars

-----------------------------------------------------------------------------
(* Claims about reshape_fmri_data and reshape_FN *)

ReshapeFunctions == {"reshape_fmri_data", "reshape_FN"}

InMask(v) == Brain_Mask.at[v] > 0

\* increasing linear index x + X*y + X*Y*z of a voxel v = <<x, y, z>>
Linear(v) ==
    v[1] + Brain_Mask.shape[1] * v[2] + Brain_Mask.shape[1] * Brain_Mask.shape[2] * v[3]

\* number of in-mask voxels that precede v in that enumeration
Rank(v) ==
    Cardinality({u \in Idx(Brain_Mask.shape) : InMask(u) /\ Linear(u) < Linear(v)})

\* the input is a dense 4D array on the grid of the mask
DenseInput == Len(input.shape) = 4 /\ SubSeq(input.shape, 1, 3) = Brain_Mask.shape

\* C1: round trip. For data type Volume, a dense 4D array consistent with the
\* mask, passed twice through reshape_fmri_data (or twice through
\* reshape_FN), comes back with shape mask.shape + (F,), equal to the input
\* at every in-mask voxel and 0 at every masked-out voxel.
C1_RoundTrip ==
    (dataType = "Volume" /\ DenseInput /\ \E f \in ReshapeFunctions : calls = <<f, f>>) =>
        /\ codec_pc = "ok"
        /\ cur.shape = Brain_Mask.shape \o <<input.shape[4]>>
        /\ \A j \in Idx(input.shape) :
            cur.at[j] = IF InMask(<<j[1], j[2], j[3]>>) THEN input.at[j] ELSE 0

\* C1 witness: a round trip through reshape_FN of an array with two features
\* that is non-zero at a masked-out voxel, under a mask that keeps a voxel
C1_Witness ==
    /\ dataType = "Volume" /\ DenseInput /\ calls = <<"reshape_FN", "reshape_FN">>
    /\ codec_pc = "ok"
    /\ input.shape[4] >= 2
    /\ \E j \in Idx(input.shape) : ~InMask(<<j[1], j[2], j[3]>>) /\ input.at[j] /= 0
    /\ \E v \in Idx(Brain_Mask.shape) : InMask(v)

\* C2: column-major encoding. For data type Volume, after one call on the 4D
\* input, spatial entry s of the compact output (column s for
\* reshape_fmri_data, row s for reshape_FN) holds the F values of the s-th
\* in-mask voxel in increasing linear index x + X*y + X*Y*z; the spatial
\* size is the number of in-mask voxels, so none is skipped or repeated and
\* no masked-out voxel contributes.
C2_ColumnMajor ==
    (dataType = "Volume" /\ DenseInput /\ Len(calls) = 1) =>
        LET S == CountInMask(Brain_Mask)
            F == input.shape[4]
        IN  /\ codec_pc = "ok"
            /\ calls[1] = "reshape_fmri_data" =>
                /\ cur.shape = <<F, S>>
                /\ \A v \in Idx(Brain_Mask.shape) : \A t \in Range0(F) :
                    InMask(v) => cur.at[t, Rank(v)] = input.at[v[1], v[2], v[3], t]
            /\ calls[1] = "reshape_FN" =>
                /\ cur.shape = <<S, F>>
                /\ \A v \in Idx(Brain_Mask.shape) : \A t \in Range0(F) :
                    InMask(v) => cur.at[Rank(v), t] = input.at[v[1], v[2], v[3], t]

\* C2 witness: reshape_fmri_data has encoded an array over a mask with two
\* axes longer than 1, one voxel masked out before a kept one
C2_Witness ==
    /\ dataType = "Volume" /\ DenseInput /\ calls = <<"reshape_fmri_data">> /\ codec_pc = "ok"
    /\ Brain_Mask.shape[1] > 1 /\ Brain_Mask.shape[2] > 1
    /\ \E u, v \in Idx(Brain_Mask.shape) : ~InMask(u) /\ InMask(v) /\ Linear(u) < Linear(v)

\* number of in-mask voxels of Brain_Mask
NumInMask == Cardinality({v \in Idx(Brain_Mask.shape) : InMask(v)})

\* C12: shape check on encode. For data type Volume, a call of
\* reshape_fmri_data or reshape_FN on a 4D input whose first three dimensions
\* differ from Brain_Mask.shape in any axis raises and returns no array, also
\* when the two grids have the same number of voxels.
C12_EncodeShapeCheck ==
    (/\ dataType = "Volume" /\ Len(calls) = 1
     /\ Len(input.shape) = 4
     /\ \E a \in 1 .. 3 : input.shape[a] /= Brain_Mask.shape[a]) =>
        codec_pc = "raised" /\ cur = input

\* C12 witness: reshape_fmri_data has rejected a 4D input with as many voxels
\* as the mask has, laid out along another axis
C12_Witness ==
    /\ dataType = "Volume" /\ calls = <<"reshape_fmri_data">>
    /\ Len(input.shape) = 4
    /\ SubSeq(input.shape, 1, 3) /= Brain_Mask.shape
    /\ Prod(SubSeq(input.shape, 1, 3)) = Prod(Brain_Mask.shape)
    /\ Prod(Brain_Mask.shape) > 1
    /\ codec_pc = "raised"

\* C13: shape check on decode. For data type Volume, a call on a 2D input,
\* of shape (T, S) for reshape_fmri_data and (S, K) for reshape_FN, raises
\* and returns no array exactly when S differs from the number of in-mask
\* voxels of Brain_Mask.
C13_DecodeShapeCheck ==
    (dataType = "Volume" /\ Len(calls) = 1 /\ Len(input.shape) = 2) =>
        LET S == IF calls[1] = "reshape_fmri_data" THEN input.shape[2] ELSE input.shape[1]
        IN  IF S /= NumInMask
            THEN codec_pc = "raised" /\ cur = input
            ELSE codec_pc = "ok" /\ Len(cur.shape) = 4

\* C13 witness: reshape_fmri_data has decoded a (T, S) input with T /= S over
\* a mask that keeps S voxels and drops at least one
C13_Witness ==
    /\ dataType = "Volume" /\ calls = <<"reshape_fmri_data">>
    /\ Len(input.shape) = 2
    /\ input.shape[2] = NumInMask /\ input.shape[1] /= NumInMask
    /\ NumInMask >= 1 /\ NumInMask < Prod(Brain_Mask.shape)
    /\ codec_pc = "ok"

\* C19: surface identity. For data type Surface, reshape_fmri_data and
\* reshape_FN return their input unchanged for every input shape, with or
\* without a Brain_Mask, and never raise.
C19_SurfaceIdentity ==
    dataType = "Surface" => codec_pc = "ok" /\ cur = input

\* C19 witness: both functions have been called, without a mask, on a 3D
\* array, which the volume branch accepts in neither direction
C19_Witness ==
    /\ dataType = "Surface" /\ Brain_Mask = NoneMask
    /\ calls = <<"reshape_fmri_data", "reshape_FN">>
    /\ Len(input.shape) = 3
    /\ codec_pc = "ok"

\* C25: signal and weight encodings share one spatial index. For data type
\* Volume and a dense 4D array D on the grid of the mask, the array
\* reshape_fmri_data returns for D is the transpose of the one reshape_FN
\* returns for D: entry [t, s] of the first and entry [s, t] of the second
\* both hold the value of D at the s-th in-mask voxel, so a product of a
\* (time, space) signal with a (space, K) weight matrix pairs each voxel
\* with itself.
C25_SharedSpatialIndex ==
    (dataType = "Volume" /\ DenseInput /\ Len(calls) = 1) =>
        /\ codec_pc = "ok"
        /\ calls[1] = "reshape_fmri_data" =>
            /\ ~reshape_FN(input, dataType, Brain_Mask).err
            /\ cur = Transpose(reshape_FN(input, dataType, Brain_Mask).val)
        /\ calls[1] = "reshape_FN" =>
            /\ ~reshape_fmri_data(input, dataType, Brain_Mask).err
            /\ cur = Transpose(reshape_fmri_data(input, dataType, Brain_Mask).val)
        /\ \A v \in Idx(Brain_Mask.shape) : \A t \in Range0(input.shape[4]) :
            InMask(v) =>
                /\ reshape_fmri_data(input, dataType, Brain_Mask).val.at[t, Rank(v)]
                        = input.at[v[1], v[2], v[3], t]
                /\ reshape_FN(input, dataType, Brain_Mask).val.at[Rank(v), t]
                        = input.at[v[1], v[2], v[3], t]

\* C25 witness: reshape_FN has encoded a one-feature array over a mask with
\* two axes longer than 1 that keeps two voxels holding different values:
\* its (2, 1) result is the transpose of the (1, 2) signal matrix
C25_Witness ==
    /\ dataType = "Volume" /\ DenseInput /\ calls = <<"reshape_FN">> /\ codec_pc = "ok"
    /\ input.shape[4] = 1 /\ NumInMask = 2
    /\ Cardinality({a \in 1 .. 3 : Brain_Mask.shape[a] > 1}) >= 2
    /\ cur.shape = <<2, 1>>
    /\ cur.at[0, 0] /= cur.at[1, 0]

\* C26: reverse round trip. For data type Volume, a compact 2D matrix C
\* whose space dimension is the number S of in-mask voxels, decoded to 4D
\* and encoded again by the same function (reshape_fmri_data for (T, S),
\* reshape_FN for (S, K)), comes back as C itself, also for S = 0 and for a
\* C that contains zeros.
C26_ReverseRoundTrip ==
    (/\ dataType = "Volume" /\ Len(input.shape) = 2
     /\ \/ calls = <<"reshape_fmri_data", "reshape_fmri_data">> /\ input.shape[2] = NumInMask
        \/ calls = <<"reshape_FN", "reshape_FN">> /\ input.shape[1] = NumInMask) =>
        codec_pc = "ok" /\ cur = input

\* C26 witness: reshape_fmri_data has decoded and encoded again a (2, 2)
\* matrix holding a zero and a non-zero value in one row, over a mask that
\* drops a voxel lying before a kept one
C26_Witness ==
    /\ dataType = "Volume" /\ Len(input.shape) = 2
    /\ calls = <<"reshape_fmri_data", "reshape_fmri_data">>
    /\ input.shape = <<2, 2>> /\ NumInMask = 2
    /\ input.at[0, 0] = 0 /\ input.at[0, 1] /= 0
    /\ \E u, v \in Idx(Brain_Mask.shape) : ~InMask(u) /\ InMask(v) /\ Linear(u) < Linear(v)
    /\ codec_pc = "ok"

-----------------------------------------------------------------------------
(* run_quality_control: the loop over the scans, lines 93-153 *)

\* np.unique of a list: its distinct entries in ascending order
RECURSIVE SortedSeq(_)
SortedSeq(S) ==
    IF S = {} THEN <<>>
    ELSE LET m == CHOOSE x \in S : \A y \in S : x <= y
         IN  <<m>> \o SortedSeq(S \ {m})

np_unique(list) == SortedSeq({list[n] : n \in 1 .. Len(list)})

list_subject_folder_unique == np_unique(list_subject_folder)

\* variant: one record per scan whatever Combine_Scan is
N_pFN_per_scan == N_Scan

\* lines 94-97
N_pFN == IF combineScan = 0 THEN N_Scan ELSE N_Subject

\* the contents Subject_Folder.txt can have for n scans, folder names being
\* numbered in their sort order: any list for n <= 3, the sorted list of
\* distinct names beyond
FolderLists(n) ==
    IF n <= 3 THEN [1 .. n -> 1 .. n] ELSE {[m \in 1 .. n |-> m]}

\* variant: the error is caught in the loop, which goes on with the next scan
ErrorSkipsScan(idx) ==
    IF idx + 1 < N_pFN THEN [pc |-> "load_pFN", next |-> idx + 1]
    ELSE [pc |-> "summary", next |-> idx + 1]

\* where control goes when a statement of iteration idx raises: the loop
\* body has no try/except, so the error leaves run_quality_control
OnError(idx) == [pc |-> "raised", next |-> idx]

\* line 58: file_Final_Report = open(..., 'w'), closed at line 153
ReportFile == [file |-> "Final_Report.txt", dir |-> 0]

\* lines 77-81: Scan_List.txt, Subject_ID.txt and Subject_Folder.txt are
\* opened inside list comprehensions, bound to no name and never closed by a
\* statement: an interpreter that counts references releases them at once,
\* another leaves them open until it collects them
ListFiles ==
    {[file |-> f, dir |-> 0] : f \in {"Scan_List.txt", "Subject_ID.txt", "Subject_Folder.txt"}}

\* Data_Input.py line 298: the Scan_List.txt of a sub-folder, opened the same way
ScanListFile(d) == [file |-> "Scan_List.txt", dir |-> d]

\* the files a run leaves open after the comprehension of line 298: as for
\* lines 77-81, none when unreferenced files are released at once
AfterScanList(files, d) ==
    IF ListFiles \subseteq files THEN files \cup {ScanListFile(d)} ELSE files

InitRun ==
    /\ K \in 1 .. 2
    /\ QCIdle
    /\ CodecIdle
    /\ combineScan \in {0, 1}
    /\ N_Scan \in 1 .. MaxScans
    /\ N_Subject \in 1 .. N_Scan
    /\ list_subject_folder \in FolderLists(N_Scan)
    /\ run_i = 0
    /\ run_pc = "load_pFN"
    /\ dir_pFN_indv = 0
    /\ flag_QC = 0
    /\ Final_Report = << [line |-> "Start QC"] >>
    /\ Result_mat = <<>>
    /\ failed_at = -1
    /\ open_files \in {{ReportFile}, {ReportFile} \cup ListFiles}
    /\ FHIdle
    /\ LoadIdle

RunFrame == UNCHANGED <<K, Spatial_Correspondence, Delta_Spatial_Correspondence,
                        qc_pc, codecVars, combineScan, N_Scan, N_Subject,
                        list_subject_folder, fhVars, loadVars>>

\* variant: the error is written to the report before it leaves the loop
RaiseLogged(idx) ==
    /\ run_pc' = OnError(idx).pc
    /\ run_i' = OnError(idx).next
    /\ Final_Report' = Append(Final_Report,
            [line |-> "processing error", folder |-> list_subject_folder[idx + 1]])
    /\ UNCHANGED <<Miss_Match, dir_pFN_indv, flag_QC, Result_mat>>
    /\ RunFrame

Raise(idx) ==
    /\ run_pc' = OnError(idx).pc
    /\ run_i' = OnError(idx).next
    /\ UNCHANGED <<Miss_Match, dir_pFN_indv, flag_QC, Final_Report, Result_mat>>
    /\ RunFrame

\* lines 102-105: the pFN of iteration i is read from FN.mat
load_pFN ==
    /\ run_pc = "load_pFN"
    /\ UNCHANGED open_files
    /\ run_i < Len(list_subject_folder_unique)
    /\ dir_pFN_indv' = list_subject_folder_unique[run_i + 1]
    /\ run_pc' = "load_scan"
    /\ UNCHANGED <<run_i, Miss_Match, flag_QC, Final_Report, Result_mat, failed_at>>
    /\ RunFrame

\* line 102: list_subject_folder_unique[i] with fewer distinct folders than N_pFN
load_pFN_IndexError ==
    /\ run_pc = "load_pFN"
    /\ UNCHANGED open_files
    /\ run_i >= Len(list_subject_folder_unique)
    /\ UNCHANGED failed_at
    /\ Raise(run_i)

\* line 103: FN.mat is missing or unreadable, scipy.io.loadmat raises
load_pFN_missing ==
    /\ run_pc = "load_pFN"
    /\ UNCHANGED open_files
    /\ run_i < Len(list_subject_folder_unique)
    /\ failed_at' = run_i
    /\ Raise(run_i)

\* lines 108-116: load_fmri_scan returns the scan data
load_scan ==
    /\ run_pc = "load_scan"
    /\ run_pc' = "compute"
    /\ open_files' = AfterScanList(open_files, dir_pFN_indv)
    /\ UNCHANGED <<run_i, Miss_Match, dir_pFN_indv, flag_QC, Final_Report, Result_mat, failed_at>>
    /\ RunFrame

\* Data_Input.py lines 310-313: a listed scan file does not exist, ValueError
load_scan_missing ==
    /\ run_pc = "load_scan"
    /\ open_files' = AfterScanList(open_files, dir_pFN_indv)
    /\ failed_at' = run_i
    /\ Raise(run_i)

\* lines 119-120: compute_quality_control on the loaded data
run_compute ==
    /\ run_pc = "compute"
    /\ UNCHANGED open_files
    /\ \E SC \in mat_corr(K) : Miss_Match' = MissMatch(SC, Delta(SC, K).val, K)
    /\ run_pc' = "tally"
    /\ UNCHANGED <<run_i, dir_pFN_indv, flag_QC, Final_Report, Result_mat, failed_at>>
    /\ RunFrame

\* variant: the tally counts the mismatched networks
tally_per_network ==
    /\ run_pc = "tally"
    /\ UNCHANGED open_files
    /\ IF Len(Miss_Match) > 0
       THEN /\ flag_QC' = flag_QC + Len(Miss_Match)
            /\ Final_Report' = Append(Final_Report,
                    [line |-> "miss matched", n |-> Len(Miss_Match),
                     folder |-> list_subject_folder[run_i + 1]])
       ELSE UNCHANGED <<flag_QC, Final_Report>>
    /\ run_pc' = "save"
    /\ UNCHANGED <<run_i, Miss_Match, dir_pFN_indv, Result_mat, failed_at>>
    /\ RunFrame

\* lines 130-133: a scan with a mismatch is counted and named in the report
tally ==
    /\ run_pc = "tally"
    /\ UNCHANGED open_files
    /\ IF Len(Miss_Match) > 0
       THEN /\ flag_QC' = flag_QC + 1
            /\ Final_Report' = Append(Final_Report,
                    [line |-> "miss matched", n |-> Len(Miss_Match),
                     folder |-> list_subject_folder[run_i + 1]])
       ELSE UNCHANGED <<flag_QC, Final_Report>>
    /\ run_pc' = "save"
    /\ UNCHANGED <<run_i, Miss_Match, dir_pFN_indv, Result_mat, failed_at>>
    /\ RunFrame

\* variant: a scan with a mismatch stops the run and nothing is written for it
save_unless_mismatch ==
    /\ run_pc = "save"
    /\ UNCHANGED open_files
    /\ IF Len(Miss_Match) > 0
       THEN /\ run_pc' = "raised"
            /\ UNCHANGED <<run_i, Result_mat>>
       ELSE /\ Result_mat' = Append(Result_mat,
                    [index |-> run_i, folder |-> list_subject_folder[run_i + 1],
                     pFN |-> dir_pFN_indv, Miss_Match |-> Miss_Match])
            /\ run_i' = run_i + 1
            /\ run_pc' = IF run_i + 1 < N_pFN THEN "load_pFN" ELSE "summary"
    /\ UNCHANGED <<Miss_Match, dir_pFN_indv, flag_QC, Final_Report, failed_at>>
    /\ RunFrame

\* lines 136-139 and the loop header: Result.mat is written, then i advances
save ==
    /\ run_pc = "save"
    /\ UNCHANGED open_files
    /\ Result_mat' = Append(Result_mat,
            [index |-> run_i, folder |-> list_subject_folder[run_i + 1],
             pFN |-> dir_pFN_indv, Miss_Match |-> Miss_Match])
    /\ run_i' = run_i + 1
    /\ run_pc' = IF run_i + 1 < N_pFN THEN "load_pFN" ELSE "summary"
    /\ UNCHANGED <<Miss_Match, dir_pFN_indv, flag_QC, Final_Report, failed_at>>
    /\ RunFrame

\* lines 141-153: the summary and the closing line of the report
summary ==
    /\ run_pc = "summary"
    /\ Final_Report' = Final_Report \o
            << IF flag_QC = 0
               THEN [line |-> "All scans passed QC", n |-> N_pFN]
               ELSE [line |-> "Number of failed scans", n |-> flag_QC],
               [line |-> "Finished QC"] >>
    /\ run_pc' = "finished"
    /\ open_files' = open_files \ {ReportFile}
    /\ UNCHANGED <<run_i, Miss_Match, dir_pFN_indv, flag_QC, Result_mat, failed_at>>
    /\ RunFrame

NextRun ==
    \/ load_pFN
    \/ load_pFN_IndexError
    \/ load_pFN_missing
    \/ load_scan
    \/ load_scan_missing
    \/ run_compute
    \/ tally
    \/ save
    \/ summary

SpecRun == InitRun /\ [][NextRun]_vars

-----------------------------------------------------------------------------
(* Claims about run_quality_control *)

RunEnded == run_pc \in {"finished", "raised"}

\* lines of the final report that record a subject whose input was missing
MissingInputRecords ==
    {n \in 1 .. Len(Final_Report) : Final_Report[n].line = "missing input"}

HasSummary ==
    \E n \in 1 .. Len(Final_Report) :
        Final_Report[n].line \in {"All scans passed QC", "Number of failed scans"}

FailedRecords == {n \in 1 .. Len(Result_mat) : Len(Result_mat[n].Miss_Match) > 0}

ReportLines(kinds) == {n \in 1 .. Len(Final_Report) : Final_Report[n].line \in kinds}

\* the loop is between two iterations or behind the last one
BetweenIterations == run_pc \in {"load_pFN", "summary", "finished"}

\* C15: run summary classification. After all scans are processed the report
\* has one summary line: the all-passed line if and only if no processed
\* scan had a non-empty Miss_Match, otherwise the failed line, whose count
\* is the number of scans with at least one mismatch, each counted once
\* however many of its networks are mismatched, and lies in 1 .. N_pFN.
C15_SummaryClassification ==
    run_pc = "finished" =>
        LET M == Cardinality(FailedRecords)
            S == ReportLines({"All scans passed QC", "Number of failed scans"})
        IN  /\ Len(Result_mat) = N_pFN
            /\ Cardinality(S) = 1
            /\ \A n \in S :
                IF M = 0
                THEN Final_Report[n].line = "All scans passed QC"
                ELSE /\ Final_Report[n].line = "Number of failed scans"
                     /\ Final_Report[n].n = M
                     /\ 1 <= M /\ M <= N_pFN

\* C15 witness: a finished run of 3 scans of which one passed, one has one
\* mismatched network and one has two
C15_Witness ==
    /\ run_pc = "finished" /\ N_pFN = 3
    /\ Cardinality(FailedRecords) = 2
    /\ \E n, m \in FailedRecords :
        Len(Result_mat[n].Miss_Match) = 1 /\ Len(Result_mat[m].Miss_Match) = 2

\* C16 as stated: for every processed index, under either Combine_Scan
\* setting and any contents of Subject_Folder.txt, the Result computed from
\* the pFN of Personalized_FN/<F> is written to Quality_Control/<F>, the
\* report line of a failed scan names that F, and no two processed indices
\* write to the same sub-folder.
C16_FolderConsistency ==
    /\ \A n \in 1 .. Len(Result_mat) : Result_mat[n].folder = Result_mat[n].pFN
    /\ BetweenIterations =>
        \A n \in FailedRecords : \E m \in ReportLines({"miss matched"}) :
            Final_Report[m].folder = Result_mat[n].pFN
    /\ \A n, m \in 1 .. Len(Result_mat) :
        n /= m => Result_mat[n].folder /= Result_mat[m].folder

\* C16 witness: scans combined per subject, Subject_Folder.txt naming the
\* first subject twice: the Result of the second subject's pFN has been
\* written over the first subject's
C16_Witness ==
    /\ combineScan = 1 /\ N_Scan = 3 /\ N_Subject = 2
    /\ list_subject_folder = <<1, 1, 2>>
    /\ run_pc = "finished"
    /\ Result_mat[2].pFN = 2 /\ Result_mat[2].folder = 1 /\ Result_mat[1].folder = 1

\* the lines the report can hold
KnownLines ==
    {"Start QC", "miss matched", "All scans passed QC", "Number of failed scans",
     "Finished QC"}

C21_IndependentFlush ==
    /\ run_pc \in {"load_pFN", "load_scan", "compute", "tally", "save", "raised"} =>
        /\ Len(Result_mat) = run_i
        /\ \A n \in 1 .. Len(Result_mat) : Result_mat[n].index = n - 1
    /\ \A n, m \in 1 .. Len(Result_mat) :
        n < m => Result_mat[m].folder /= Result_mat[n].folder

\* C21 witness: scans combined per subject, Subject_Folder.txt naming the
\* first subject twice; the Result.mat written for index 0 has been written
\* over, with another mismatch list, by index 1
C21_Witness ==
    /\ combineScan = 1 /\ N_Subject = 2
    /\ list_subject_folder = <<1, 1, 2>>
    /\ run_pc = "summary" /\ Len(Result_mat) = 2
    /\ Result_mat[2].folder = Result_mat[1].folder
    /\ Result_mat[2].Miss_Match /= Result_mat[1].Miss_Match

\* C22 as stated: every file opened during run_quality_control is closed on
\* every exit path, the path where processing a scan raises included.
C22_FilesClosedOnExit == RunEnded => open_files = {}

\* C22 witness: the run has stopped at a missing scan under an interpreter
\* that releases unreferenced files at once; the final report is still open
C22_Witness ==
    /\ run_pc = "raised" /\ failed_at = 1 /\ dir_pFN_indv /= 0
    /\ open_files = {ReportFile}

\* the number of records the settings call for
RecordsCalledFor == IF combineScan = 0 THEN N_Scan ELSE N_Subject

\* a step of the loop on index run_i in the order load pFN, load signal,
\* compute, tally, save, then the next index or the summary
StepInOrder ==
    \/ run_pc = "load_pFN" /\ run_pc' \in {"load_scan", "raised"} /\ run_i' = run_i
    \/ run_pc = "load_scan" /\ run_pc' \in {"compute", "raised"} /\ run_i' = run_i
    \/ run_pc = "compute" /\ run_pc' = "tally" /\ run_i' = run_i
    \/ run_pc = "tally" /\ run_pc' = "save" /\ run_i' = run_i
    \/ /\ run_pc = "save" /\ run_i' = run_i + 1
       /\ run_pc' = IF run_i' < RecordsCalledFor THEN "load_pFN" ELSE "summary"
       /\ Result_mat' = Append(Result_mat, Result_mat'[Len(Result_mat')])
       /\ Result_mat'[Len(Result_mat')].index = run_i
    \/ run_pc = "summary" /\ run_pc' = "finished" /\ run_i' = run_i

\* C23: sequential single pass. The loop takes the steps load pFN, load
\* signal, compute, tally, save in that order on one index after the other,
\* in increasing order, each index once and none again; a Result is written
\* by the save step only, and a run that reaches its end has processed
\* exactly N records, N the number of scans when Combine_Scan is 0 and the
\* number of unique subject IDs otherwise.
C23_SequentialSinglePass ==
    [][/\ StepInOrder
       /\ run_pc /= "save" => Result_mat' = Result_mat
       /\ run_pc' = "finished" =>
            /\ Len(Result_mat') = RecordsCalledFor
            /\ \A n \in 1 .. Len(Result_mat') : Result_mat'[n].index = n - 1]_vars

\* C23 witness: a finished run over 3 scans of 2 subjects, combined per
\* subject: 2 records
C23_Witness ==
    /\ run_pc = "finished" /\ combineScan = 1
    /\ N_Scan = 3 /\ N_Subject = 2
    /\ Len(Result_mat) = 2
    /\ Result_mat[1].index = 0 /\ Result_mat[2].index = 1

-----------------------------------------------------------------------------
(* compute_quality_control: functional homogeneity, lines 193-200.          *)
(* These lines read scan_data, gFN and pFN only; nothing computed in lines  *)
(* 178-191 reaches them, and those lines raise nothing that could skip them. *)

\* largest number of brain locations (dim_space)
MaxSpace == 2

\* a floating-point value: a finite number in hundredths, nan (val 0) or an
\* infinity (val its sign)
Fin(x) == [fin |-> TRUE, val |-> x]

NaN == [fin |-> FALSE, val |-> 0]

Inf(sign) == [fin |-> FALSE, val |-> sign]

\* f[0] + ... + f[n - 1]
RECURSIVE SumTo(_, _)
SumTo(f, n) == IF n = 0 THEN 0 ELSE SumTo(f, n - 1) + f[n - 1]

\* np.sum(W, axis=0) of a [nV, nK] matrix
np_sum_axis0(W, nV, nK) ==
    [k \in Range0(nK) |-> SumTo([v \in Range0(nV) |-> W[v, k]], nV)]

\* x / d in NumPy, d >= 0: a zero divisor gives nan or an infinity and a
\* warning, never an exception
np_true_divide(x, d) ==
    IF ~x.fin THEN x
    ELSE IF d = 0 THEN (IF x.val = 0 THEN NaN ELSE IF x.val > 0 THEN Inf(1) ELSE Inf(-1))
    ELSE Fin(x.val \div d)

\* scan_data @ W / den, a [nT, nK] matrix
signal(scan, W, den, nT, nV, nK) ==
    [j \in Range0(nT) \X Range0(nK) |->
        np_true_divide(
            Fin(One * SumTo([v \in Range0(nV) |-> scan[j[1], v] * W[v, j[2]]], nV)),
            den[j[2]])]

\* the correlations mat_corr is followed with, fewer for larger matrices
CorrFHVals(n) == IF n <= 2 THEN {-One, 0, One} ELSE {-One, One}

CorrFHMatrices(nV, nK) ==
    IF nV * nK <= 4 THEN [Range0(nK) \X Range0(nV) -> CorrFHVals(nV * nK)]
    ELSE {[j \in Range0(nK) \X Range0(nV) |-> c] : c \in CorrFHVals(nV * nK)}

\* mat_corr(sig, scan_data): the [nK, nV] matrices it can return, entry
\* [k, v] correlating column k of sig with column v of scan_data: a value in
\* [-1, 1], or nan when column k of sig is not finite
mat_corr_FH(sig, nT, nV, nK) ==
    {[j \in Range0(nK) \X Range0(nV) |->
        IF \A t \in Range0(nT) : sig[t, j[1]].fin THEN Fin(C[j]) ELSE NaN] :
     C \in CorrFHMatrices(nV, nK)}

\* np.sum(Corr.T * W, axis=0): nan * 0 is nan
weighted_sum(Corr, W, nV, nK) ==
    [k \in Range0(nK) |->
        IF \A v \in Range0(nV) : Corr[k, v].fin
        THEN Fin(SumTo([v \in Range0(nV) |-> Corr[k, v].val * W[v, k]], nV))
        ELSE NaN]

\* np.sum(Corr.T * W, axis=0) / den
homogeneity(Corr, W, den, nV, nK) ==
    [k \in Range0(nK) |-> np_true_divide(weighted_sum(Corr, W, nV, nK)[k], den[k])]

\* variant: the control signal divided by the column sums of gFN
gFN_signal_sums_group(Wg, Wp, nV, nK) == np_sum_axis0(Wg, nV, nK)

\* line 198: the divisor of gFN_signal is np.sum(pFN, axis=0, keepdims=True)
gFN_signal_sums(Wg, Wp, nV, nK) == np_sum_axis0(Wp, nV, nK)

\* variant: the control reduction divided by the column sums of pFN
control_sums_personalized(Wg, Wp, nV, nK) == np_sum_axis0(Wp, nV, nK)

\* line 200: the divisor of Functional_Homogeneity_Control is np.sum(gFN, axis=0)
control_sums(Wg, Wp, nV, nK) == np_sum_axis0(Wg, nV, nK)

\* the non-negative weights of gFN and pFN, fewer for larger matrices
WeightVals(n) == IF n <= 2 THEN {0, 1, 2} ELSE {0, 1}

\* the scan data: every matrix over two values when small, the two constant
\* matrices beyond
ScanData(nT, nV, nK) ==
    IF nV * nK <= 2 THEN [Range0(nT) \X Range0(nV) -> {1, 2}]
    ELSE {[j \in Range0(nT) \X Range0(nV) |-> c] : c \in {1, 2}}

InitFH ==
    /\ K \in 1 .. 2
    /\ QCIdle
    /\ CodecIdle
    /\ RunIdle
    /\ LoadIdle
    /\ dim_space \in 1 .. MaxSpace
    /\ dim_time = 1
    /\ qc_scan_data \in ScanData(dim_time, dim_space, K)
    /\ gFN \in [Range0(dim_space) \X Range0(K) -> WeightVals(dim_space * K)]
    /\ pFN \in [Range0(dim_space) \X Range0(K) -> WeightVals(dim_space * K)]
    /\ pFN_signal = <<>>
    /\ gFN_signal = <<>>
    /\ Corr_FH = <<>>
    /\ Functional_Homogeneity = <<>>
    /\ Functional_Homogeneity_Control = <<>>
    /\ fh_pc = "start"

\* compute_quality_control, lines 193-200
compute_functional_homogeneity ==
    /\ fh_pc = "start"
    /\ LET sums_pFN == np_sum_axis0(pFN, dim_space, K)
           ps == signal(qc_scan_data, pFN, sums_pFN, dim_time, dim_space, K)
           gs == signal(qc_scan_data, gFN, gFN_signal_sums(gFN, pFN, dim_space, K),
                        dim_time, dim_space, K)
       IN  /\ pFN_signal' = ps
           /\ gFN_signal' = gs
           /\ \E C \in mat_corr_FH(ps, dim_time, dim_space, K) :
                Functional_Homogeneity' = homogeneity(C, pFN, sums_pFN, dim_space, K)
           /\ \E C \in mat_corr_FH(gs, dim_time, dim_space, K) :
                /\ Corr_FH' = C
                /\ Functional_Homogeneity_Control' =
                        homogeneity(C, gFN, control_sums(gFN, pFN, dim_space, K), dim_space, K)
    /\ fh_pc' = "done"
    /\ UNCHANGED <<dim_space, dim_time, qc_scan_data, gFN, pFN, qcVars, codecVars, runVars,
                   loadVars>>

NextFH == compute_functional_homogeneity

SpecFH == InitFH /\ [][NextFH]_vars

-----------------------------------------------------------------------------
(* Claims about the functional homogeneity *)

FHDone == fh_pc = "done"

\* sum of column k of a [dim_space, K] weight matrix
ColumnSum(W, k) == SumTo([v \in Range0(dim_space) |-> W[v, k]], dim_space)

NoZeroColumn == \A k \in Nets : ColumnSum(pFN, k) /= 0 /\ ColumnSum(gFN, k) /= 0

\* C11 as stated: whenever a column of pFN, or of gFN in the control pass,
\* sums to zero, compute_quality_control raises; it never returns
\* homogeneity vectors obtained by dividing by a zero column sum.
C11_DegenerateRejection == FHDone => NoZeroColumn

\* C11 witness: the function has returned for a gFN whose second column is
\* all zero while no column of pFN is: every time course is finite, and that
\* entry of Functional_Homogeneity_Control is 0 / 0 = nan
C11_Witness ==
    /\ FHDone /\ K = 2
    /\ ColumnSum(gFN, 1) = 0 /\ ColumnSum(gFN, 0) /= 0
    /\ \A k \in Nets : ColumnSum(pFN, k) /= 0
    /\ \A k \in Nets : gFN_signal[0, k].fin /\ Functional_Homogeneity[k].fin
    /\ Functional_Homogeneity_Control[1] = NaN
    /\ Functional_Homogeneity_Control[0].fin

\* numerator of the control pass for network k: sum over the locations of
\* Corr_FH[k, v] * gFN[v, k]
ControlNumerator(k) ==
    SumTo([v \in Range0(dim_space) |-> Corr_FH[k, v].val * gFN[v, k]], dim_space)

\* numerator of the control time course at time t: (scan_data @ gFN)[t, k]
ControlSignalNumerator(t, k) ==
    One * SumTo([v \in Range0(dim_space) |-> qc_scan_data[t, v] * gFN[v, k]], dim_space)

\* C14 as stated: in the control pass both the representative time course
\* and the final weighted-average reduction are divided by the column sums
\* of pFN.
C14_ControlUsesPersonalizedSums ==
    (FHDone /\ NoZeroColumn) =>
        \A k \in Nets :
            /\ \A t \in Range0(dim_time) :
                gFN_signal[t, k] = Fin(ControlSignalNumerator(t, k) \div ColumnSum(pFN, k))
            /\ Functional_Homogeneity_Control[k] =
                    Fin(ControlNumerator(k) \div ColumnSum(pFN, k))

\* C14 amended: in the control pass the representative time course is
\* divided by the column sums of pFN, the final weighted-average reduction
\* by the column sums of gFN.
C14_ControlReductionUsesGroupSums ==
    (FHDone /\ NoZeroColumn) =>
        \A k \in Nets :
            /\ \A t \in Range0(dim_time) :
                gFN_signal[t, k] = Fin(ControlSignalNumerator(t, k) \div ColumnSum(pFN, k))
            /\ Functional_Homogeneity_Control[k] =
                    Fin(ControlNumerator(k) \div ColumnSum(gFN, k))

\* C14 witness: two locations, a network whose pFN and gFN columns have
\* different non-zero sums and a control homogeneity other than 0
C14_Witness ==
    /\ FHDone /\ NoZeroColumn /\ dim_space = 2
    /\ \E k \in Nets :
        /\ ColumnSum(pFN, k) /= ColumnSum(gFN, k)
        /\ Functional_Homogeneity_Control[k].val /= 0
        /\ gFN_signal[0, k].val /= ControlSignalNumerator(0, k) \div ColumnSum(gFN, k)

\* C20: homogeneity bounds. For non-negative weights whose columns all have
\* a non-zero sum and correlations in [-1, 1], every entry of
\* Functional_Homogeneity and of Functional_Homogeneity_Control is a finite
\* number in [-1, 1].
C20_HomogeneityBounds ==
    (FHDone /\ NoZeroColumn) =>
        \A k \in Nets :
            /\ Functional_Homogeneity[k].fin
            /\ -One <= Functional_Homogeneity[k].val /\ Functional_Homogeneity[k].val <= One
            /\ Functional_Homogeneity_Control[k].fin
            /\ -One <= Functional_Homogeneity_Control[k].val
            /\ Functional_Homogeneity_Control[k].val <= One

\* C20 witness: both bounds are attained, the upper one by a control entry
\* whose gFN column sums to more than its pFN column
C20_Witness ==
    /\ FHDone /\ NoZeroColumn
    /\ \E k \in Nets : Functional_Homogeneity[k].val = -One
    /\ \E k \in Nets :
        /\ Functional_Homogeneity_Control[k].val = One
        /\ ColumnSum(gFN, k) > ColumnSum(pFN, k)

-----------------------------------------------------------------------------
(* check_data_type_format and print_log, Data_Input.py lines 864-896 and    *)
(* 1052-1074.                                                               *)

\* logFile=None
None == "None"

SurfaceFormats ==
    {"HCP Surface (*.cifti, *.mat)", "MGH Surface (*.mgh)", "MGZ Surface (*.mgz)"}

VolumeFormat == "Volume (*.nii, *.nii.gz, *.mat)"

SurfaceVolumeFormat == "HCP Surface-Volume (*.cifti)"

\* the tuples of lines 877 and 882
SupportedTypes == {"Volume", "Surface", "Surface-Volume"}

SupportedFormats == SurfaceFormats \cup {VolumeFormat, SurfaceVolumeFormat}

\* settings outside the supported ones
OtherTypes == {"volume", "fMRI"}

OtherFormats == {"Volume (*.nii)", "CIFTI"}

\* print_log(message, logFile, stop): whether it raises and how many lines it
\* prints to logFile
print_log(logFile, stop) ==
    [raised |-> stop, printed |-> IF logFile = None THEN 0 ELSE 1]

NothingLogged == [raised |-> FALSE, printed |-> 0]

\* lines 877-896
check_data_type_format(dT, dF, logFile) ==
    IF dT \notin SupportedTypes /\ logFile = None THEN print_log(logFile, TRUE)
    ELSE IF dF \notin SupportedFormats /\ logFile = None THEN print_log(logFile, TRUE)
    ELSE IF dT = "Surface" /\ dF \notin SurfaceFormats THEN print_log(logFile, TRUE)
    ELSE IF dT = "Volume" /\ dF /= VolumeFormat THEN print_log(logFile, TRUE)
    ELSE IF dT = "Surface-Volume" /\ dF /= SurfaceVolumeFormat THEN print_log(logFile, TRUE)
    ELSE NothingLogged

InitCheck ==
    /\ K = 1
    /\ QCIdle
    /\ CodecIdle
    /\ RunIdle
    /\ FHIdle
    /\ load_args \in [dataType : SupportedTypes \cup OtherTypes,
                      dataFormat : SupportedFormats \cup OtherFormats,
                      logFile : {None, "Log.log"}]
    /\ scan_list = <<>>
    /\ load_i = 0
    /\ Data = <<>>
    /\ checked = {}
    /\ log_lines = 0
    /\ load_pc = "check"

\* one call check_data_type_format(dataType, dataFormat, logFile=logFile)
call_check_data_type_format ==
    /\ load_pc = "check"
    /\ LET r == check_data_type_format(load_args.dataType, load_args.dataFormat,
                                       load_args.logFile)
       IN  /\ log_lines' = log_lines + r.printed
           /\ load_pc' = IF r.raised THEN "raised" ELSE "returned"
    /\ UNCHANGED <<load_args, scan_list, load_i, Data, checked,
                   qcVars, codecVars, runVars, fhVars>>

NextCheck == call_check_data_type_format

SpecCheck == InitCheck /\ [][NextCheck]_vars

-----------------------------------------------------------------------------
(* load_fmri_scan, Data_Input.py lines 266-435, for the MGZ surface, the   *)
(* volume and the HCP surface-volume formats. A line of the scan list is   *)
(* empty, names a file that does not exist, or names a file holding an     *)
(* array.                                                                  *)

EmptyLine == [empty |-> TRUE, isfile |-> FALSE, array |-> NoneMask]

MissingFile == [empty |-> FALSE, isfile |-> FALSE, array |-> NoneMask]

ScanFile(a) == [empty |-> FALSE, isfile |-> TRUE, array |-> a]

\* Data = None, line 302
NoData == NoneMask

\* the array of a shape that is 1 at one position and 0 elsewhere
UnitArray(shape, pos) ==
    [shape |-> shape, at |-> [j \in Idx(shape) |-> IF j = pos THEN 1 ELSE 0]]

OnesArray(shape) == [shape |-> shape, at |-> [j \in Idx(shape) |-> 1]]

\* the contents of .mgz files, [dim_space, 1, 1, dim_time]: 2, 3 or 1 time
\* points on 2 vertices, 2 time points on 3 vertices
SurfaceFiles ==
    {UnitArray(<<2, 1, 1, 2>>, <<0, 0, 0, 0>>), UnitArray(<<2, 1, 1, 2>>, <<1, 0, 0, 1>>),
     OnesArray(<<2, 1, 1, 2>>), UnitArray(<<2, 1, 1, 3>>, <<1, 0, 0, 2>>),
     UnitArray(<<3, 1, 1, 2>>, <<0, 0, 0, 0>>), OnesArray(<<2, 1, 1, 1>>)}

\* the contents of volume files, [X, Y, Z, dim_time], on a grid of 2 voxels
\* or of 1
VolumeFiles ==
    {UnitArray(<<2, 1, 1, 2>>, <<0, 0, 0, 0>>), UnitArray(<<2, 1, 1, 2>>, <<1, 0, 0, 1>>),
     OnesArray(<<2, 1, 1, 1>>), UnitArray(<<2, 1, 1, 1>>, <<1, 0, 0, 0>>),
     OnesArray(<<1, 1, 1, 1>>)}

\* the masks passed with volume data: none, both voxels, the second voxel
VolumeMasks ==
    {NoneMask, OnesArray(<<2, 1, 1>>), UnitArray(<<2, 1, 1>>, <<1, 0, 0>>)}

\* the lines followed in a list of n lines: fewer kinds in longer lists
Lines(files, n) ==
    LET few == {a \in files : a.shape[4] = 2 /\ a.at[<<0, 0, 0, 0>>] = 1}
    IN  IF n <= 2 THEN {EmptyLine, MissingFile} \cup {ScanFile(a) : a \in files}
        ELSE IF n = 3 THEN {EmptyLine} \cup {ScanFile(a) : a \in few}
        ELSE {EmptyLine} \cup {ScanFile(a) : a \in {b \in few : b.shape[1] = 2}}

ScanLists(files) ==
    UNION {[1 .. n -> Lines(files, n)] : n \in 0 .. MaxScans}

\* dataType and dataFormat of the call
LoadSettings ==
    {<<"Surface", "MGZ Surface (*.mgz)">>, <<"Volume", VolumeFormat>>,
     <<"Surface-Volume", SurfaceVolumeFormat>>, <<"Surface", VolumeFormat>>}

Normalizations == {None, "vp-vmax", "z-n2"}

\* np.squeeze(a): the axes of length 1 removed
RECURSIVE squeezed(_)
squeezed(shape) ==
    IF shape = <<>> THEN <<>>
    ELSE IF Head(shape) = 1 THEN squeezed(Tail(shape))
    ELSE <<Head(shape)>> \o squeezed(Tail(shape))

np_squeeze(a) == np_reshape_F(a, squeezed(a.shape))

\* a.T of an array of at most 2 dimensions
np_T(a) == IF Len(a.shape) = 2 THEN Transpose(a) ELSE a

\* variant: the rows of b placed before the rows of a
np_append_before(a, b) ==
    [shape |-> <<a.shape[1] + b.shape[1], a.shape[2]>>,
     at |-> [j \in Idx(<<a.shape[1] + b.shape[1], a.shape[2]>>) |->
                IF j[1] < b.shape[1] THEN b.at[j] ELSE a.at[<<j[1] - b.shape[1], j[2]>>]]]

\* np.append(a, b, axis=0) of two 2D arrays with as many columns
np_append_axis0(a, b) ==
    [shape |-> <<a.shape[1] + b.shape[1], a.shape[2]>>,
     at |-> [j \in Idx(<<a.shape[1] + b.shape[1], a.shape[2]>>) |->
                IF j[1] < a.shape[1] THEN a.at[j] ELSE b.at[<<j[1] - a.shape[1], j[2]>>]]]

\* normalize_data(data, 'vp', 'vmax'), lines 204-205, 220-224, 251-254, on
\* data without negative values: each column shifted by its minimum and
\* divided by its range, a constant column becoming 0
normalize_data(data) ==
    IF Len(data.shape) /= 2 THEN Raised
    ELSE LET column(c) == {data.at[<<r, c>>] : r \in Range0(data.shape[1])}
             cmin(c) == np_min(column(c)).val
             cmax(c) == np_max(column(c)).val
         IN  Returned([shape |-> data.shape,
                       at |-> [j \in Idx(data.shape) |->
                                IF cmax(j[2]) = cmin(j[2]) THEN 0
                                ELSE (data.at[j] - cmin(j[2])) \div (cmax(j[2]) - cmin(j[2]))]])

\* lines 392-396, repeated at 398-402, 409-413 and 419-423
normalize(scan_data, args) ==
    IF args.Normalization /= None
    THEN IF args.Normalization = "vp-vmax" THEN normalize_data(scan_data) ELSE Raised
    ELSE Returned(scan_data)

\* lines 356-379: the array of one scan as read and reshaped
read_scan(array, args, n) ==
    CASE args.dataFormat = "MGZ Surface (*.mgz)" -> Returned(np_T(np_squeeze(array)))
      [] args.dataFormat = VolumeFormat ->
            IF n > 1 /\ ~args.Reshape /\ args.Concatenation THEN Raised
            ELSE IF args.Reshape
                 THEN IF args.Brain_Mask = NoneMask THEN Raised
                      ELSE reshape_fmri_data(array, args.dataType, args.Brain_Mask)
                 ELSE Returned(array)
      [] args.dataFormat \notin SurfaceFormats \cup {VolumeFormat} -> Raised

\* lines 390-403: the first scan
first_scan(scan_data, args) ==
    IF args.dataType \in {"Surface", "Volume"} THEN normalize(scan_data, args)
    ELSE Returned(scan_data)

\* lines 405-431: a later scan
later_scan(data, scan_data, args) ==
    IF args.dataType \notin {"Surface", "Volume"} THEN Raised
    ELSE IF data = NoData \/ Len(data.shape) /= 2 \/ Len(scan_data.shape) < 2
            \/ scan_data.shape[2] /= data.shape[2] THEN Raised
    ELSE IF args.dataType = "Volume" /\ ~args.Reshape THEN Raised
    ELSE LET normalized == normalize(scan_data, args)
         IN  IF normalized.err THEN Raised
             ELSE IF args.Concatenation
                  THEN Returned(np_append_axis0(data, normalized.val))
                  ELSE Raised

\* the number of lines a print to logFile adds
logged(args) == IF args.logFile = None THEN 0 ELSE 1

InitLoad ==
    /\ K = 1
    /\ QCIdle
    /\ CodecIdle
    /\ RunIdle
    /\ FHIdle
    /\ \E setting \in LoadSettings :
         /\ load_args \in [dataType : {setting[1]}, dataFormat : {setting[2]},
                           Reshape : IF setting[1] = "Volume" THEN BOOLEAN ELSE {TRUE},
                           Brain_Mask : IF setting[1] = "Volume" THEN VolumeMasks
                                        ELSE {NoneMask},
                           Normalization : Normalizations,
                           Concatenation : BOOLEAN,
                           logFile : {None, "Log.log"}]
         /\ scan_list \in ScanLists(IF setting[2] = VolumeFormat /\ setting[1] = "Volume"
                                    THEN VolumeFiles ELSE SurfaceFiles)
    /\ load_i = 0
    /\ Data = NoData
    /\ checked = {}
    /\ log_lines = 0
    /\ load_pc = "check"

LoadFrame == UNCHANGED <<load_args, scan_list, qcVars, codecVars, runVars, fhVars>>

\* lines 286-302: the settings are checked, the list is read
load_begin ==
    /\ load_pc = "check"
    /\ LET r == check_data_type_format(load_args.dataType, load_args.dataFormat,
                                       load_args.logFile)
       IN  IF r.raised
           THEN /\ load_pc' = "raised"
                /\ log_lines' = log_lines + r.printed
           ELSE /\ load_pc' = "loop"
                /\ log_lines' = log_lines + logged(load_args)
    /\ UNCHANGED <<load_i, Data, checked>>
    /\ LoadFrame

\* lines 303-313: a line naming a file that does not exist
load_missing_file ==
    /\ load_pc = "loop"
    /\ load_i < Len(scan_list)
    /\ ~scan_list[load_i + 1].empty
    /\ ~scan_list[load_i + 1].isfile
    /\ checked' = checked \cup {load_i}
    /\ log_lines' = log_lines + logged(load_args)
    /\ load_pc' = "raised"
    /\ UNCHANGED <<load_i, Data>>
    /\ LoadFrame

\* lines 303-431: one scan is read and joined to Data
load_one_scan ==
    /\ load_pc = "loop"
    /\ load_i < Len(scan_list)
    /\ ~scan_list[load_i + 1].empty
    /\ scan_list[load_i + 1].isfile
    /\ checked' = checked \cup {load_i}
    /\ LET scan_data == read_scan(scan_list[load_i + 1].array, load_args, Len(scan_list))
           joined == IF scan_data.err THEN Raised
                     ELSE IF load_i = 0 THEN first_scan(scan_data.val, load_args)
                     ELSE later_scan(Data, scan_data.val, load_args)
       IN  /\ log_lines' = log_lines + logged(load_args)
                           + (IF scan_data.err THEN 0 ELSE logged(load_args))
           /\ IF joined.err
              THEN /\ load_pc' = "raised"
                   /\ UNCHANGED <<load_i, Data>>
              ELSE /\ Data' = joined.val
                   /\ load_i' = load_i + 1
                   /\ load_pc' = "loop"
    /\ LoadFrame

\* lines 304-305 and 433-435: the list ends or an empty line is met; the size
\* of Data is printed to logFile, Data is returned
load_return ==
    /\ load_pc = "loop"
    /\ IF load_i < Len(scan_list) THEN scan_list[load_i + 1].empty ELSE TRUE
    /\ IF load_args.logFile /= None /\ Data = NoData
       THEN load_pc' = "raised" /\ UNCHANGED log_lines
       ELSE load_pc' = "returned" /\ log_lines' = log_lines + logged(load_args)
    /\ UNCHANGED <<load_i, Data, checked>>
    /\ LoadFrame

NextLoad == load_begin \/ load_missing_file \/ load_one_scan \/ load_return

SpecLoad == InitLoad /\ [][NextLoad]_vars

-----------------------------------------------------------------------------
(* Claims on load_fmri_scan *)

LoadEnded == load_pc \in {"returned", "raised"}

\* the settings pass line 286
SettingsPass ==
    ~check_data_type_format(load_args.dataType, load_args.dataFormat, load_args.logFile).raised

\* every line names a file that exists
ListOfScans ==
    /\ Len(scan_list) >= 1
    /\ \A k \in 1 .. Len(scan_list) : ~scan_list[k].empty /\ scan_list[k].isfile

\* the scan of line k as its format is read
RawScan(k) == read_scan(scan_list[k].array, load_args, Len(scan_list))

\* line k holds a scan [time, space]
IsScan2D(k) == ~RawScan(k).err /\ Len(RawScan(k).val.shape) = 2

\* the lines 1 .. m hold scans of one spatial dimension
SameSpace(m) ==
    \A k \in 1 .. m : IsScan2D(k) /\ RawScan(k).val.shape[2] = RawScan(1).val.shape[2]

RECURSIVE TimePoints(_, _)
\* the time points of the scans of lines 1 .. m; scan(k) is the scan of line k
TimePoints(scan, m) == IF m = 0 THEN 0 ELSE TimePoints(scan, m - 1) + scan[m].shape[1]

\* Data is the rows of scan(1), ..., scan(m), in that order
StackOf(scan, m) ==
    /\ Data.shape = <<TimePoints(scan, m), scan[1].shape[2]>>
    /\ \A k \in 1 .. m : \A r \in Range0(scan[k].shape[1]) : \A c \in Range0(scan[1].shape[2]) :
            Data.at[<<TimePoints(scan, k - 1) + r, c>>] = scan[k].at[<<r, c>>]

\* the scans as read
RawScans == [k \in 1 .. Len(scan_list) |-> RawScan(k).val]

\* the scans as read, each normalized when 'vp-vmax' is asked for
Scans ==
    [k \in 1 .. Len(scan_list) |->
        IF load_args.Normalization = "vp-vmax" THEN normalize_data(RawScan(k).val).val
        ELSE RawScan(k).val]

\* some scan after the first has another spatial dimension than the first
DifferentSpace ==
    /\ IsScan2D(1)
    /\ \E k \in 2 .. Len(scan_list) :
            IsScan2D(k) /\ RawScan(k).val.shape[2] /= RawScan(1).val.shape[2]

\* C24 as stated: for a list of n >= 1 scans of one spatial dimension S,
\* load_fmri_scan returns the 2D matrix of the rows of scan 1, ..., scan n in
\* list order, whatever the other arguments are.
C24_ConcatenationAlways ==
    (LoadEnded /\ SettingsPass /\ ListOfScans /\ SameSpace(Len(scan_list))) =>
        /\ load_pc = "returned"
        /\ StackOf(RawScans, Len(scan_list))

\* C24 as amended: for a list of n >= 1 scans of one spatial dimension S,
\* load_fmri_scan raises when Normalization is set to anything but 'vp-vmax'
\* and when n >= 2 with Concatenation False; otherwise it returns the 2D
\* matrix with S columns whose rows are the rows of scan 1, ..., scan n in
\* list order, each scan normalized first when 'vp-vmax' is asked for. When
\* every line names a scan and a scan after the first has another spatial
\* dimension than the first, it raises.
C24_Concatenation ==
    /\ (LoadEnded /\ SettingsPass /\ ListOfScans /\ SameSpace(Len(scan_list))) =>
            IF \/ load_args.Normalization \notin {None, "vp-vmax"}
               \/ ~load_args.Concatenation /\ Len(scan_list) >= 2
            THEN load_pc = "raised"
            ELSE /\ load_pc = "returned"
                 /\ StackOf(Scans, Len(scan_list))
                 /\ load_args.Normalization = None => StackOf(RawScans, Len(scan_list))
    /\ (LoadEnded /\ SettingsPass /\ ListOfScans /\ DifferentSpace) => load_pc = "raised"

\* C24 witness: two surface scans of 2 and 3 time points on 2 vertices have
\* been returned as one matrix of 5 rows
C24_Witness ==
    /\ load_pc = "returned" /\ Len(scan_list) = 2 /\ ListOfScans
    /\ SameSpace(2)
    /\ load_args.Normalization = None
    /\ RawScan(1).val.shape = <<2, 2>> /\ RawScan(2).val.shape = <<3, 2>>
    /\ RawScan(1).val.at[<<0, 0>>] = 1
    /\ Data.shape = <<5, 2>>
    /\ Data.at[<<0, 0>>] = 1 /\ Data.at[<<4, 1>>] = 1

HasEmptyLine == \E k \in 1 .. Len(scan_list) : scan_list[k].empty

\* the first empty line of the list, 1-based
FirstEmpty ==
    CHOOSE e \in 1 .. Len(scan_list) :
        scan_list[e].empty /\ \A k \in 1 .. (e - 1) : ~scan_list[k].empty

\* C29 as stated: load_fmri_scan stops at the first empty line: no scan from
\* that line on is checked or loaded, no error is raised at that line or
\* after it, and what is returned is the data of the scans before it, None
\* when the first line is empty.
C29_EmptyLineTruncates ==
    (HasEmptyLine /\ SettingsPass /\ load_pc /= "check") =>
        /\ checked \subseteq Range0(FirstEmpty - 1)
        /\ load_i <= FirstEmpty - 1
        /\ load_pc = "raised" => load_i < FirstEmpty - 1
        /\ load_pc = "returned" =>
                /\ load_i = FirstEmpty - 1
                /\ IF FirstEmpty = 1 THEN Data = NoData
                   ELSE IF FirstEmpty = 2 THEN Data = Scans[1]
                   ELSE StackOf(Scans, FirstEmpty - 1)

\* C29 witness: the first line of the list is empty and a log file is given;
\* the call has raised without having checked a file
C29_Witness ==
    /\ load_pc = "raised" /\ SettingsPass
    /\ Len(scan_list) >= 2 /\ scan_list[1].empty /\ ~scan_list[2].empty
    /\ load_args.logFile /= None
    /\ checked = {} /\ Data = NoData

-----------------------------------------------------------------------------
(* Claims on check_data_type_format *)

\* a supported type with a format of that type
MatchingPair ==
    \/ load_args.dataType = "Surface" /\ load_args.dataFormat \in SurfaceFormats
    \/ load_args.dataType = "Volume" /\ load_args.dataFormat = VolumeFormat
    \/ load_args.dataType = "Surface-Volume" /\ load_args.dataFormat = SurfaceVolumeFormat

\* C30 as stated: check_data_type_format raises for every dataType outside
\* the three supported ones, for every dataFormat outside the five supported
\* ones and for every mismatched pair, with logFile None or supplied, and
\* returns without raising only for a supported, matching pair.
C30_ValidationRaises ==
    /\ load_pc = "returned" => MatchingPair
    /\ load_pc = "raised" => ~MatchingPair

\* C30 witness: an unsupported dataType with a log file supplied has come
\* back without an error and without a line in the log
C30_Witness ==
    /\ load_pc = "returned" /\ log_lines = 0
    /\ load_args.dataType \notin SupportedTypes
    /\ load_args.logFile /= None
    /\ load_args.dataFormat \in SupportedFormats

====
